---- MODULE Spec2Model ----
(***************************************************************************)
(* Model of src/main.py: the price parser (extract_price,                  *)
(* extract_discount_rate), the product extractor (get_product_info), the   *)
(* aggregator (calculate_summary_stats) and the control flow of main.      *)
(*                                                                         *)
(* Texts are sequences of one-character strings, so that parsing is        *)
(* computed character by character as the regular expression and float()   *)
(* do.  Numbers are exact rationals <<n, d>> (d > 0, lowest terms); Python *)
(* None / pandas NaN is the empty tuple.                                   *)
(***************************************************************************)
EXTENDS Integers, Sequences, FiniteSets, TLC

VARIABLES
    cards,          \* get_product_info: what driver.find_elements yields
    category,       \* get_product_info: argument category
    user_brand_name,\* get_product_info: argument user_brand_name
    products,       \* get_product_info: the returned list
    built,          \* get_product_info: built[k] = index of the card of products[k]
    raised,         \* get_product_info: the except branch of line 109 ran
    epc,            \* get_product_info: "input" | "returned"
    df,             \* calculate_summary_stats: the argument table
    stats,          \* calculate_summary_stats: its outcome
    spc,            \* calculate_summary_stats: "input" | "summarized" | "permuted"
    pair,           \* main: number of (brand, title) pairs fetched so far
    all_products,   \* main: the master list
    pc,             \* main: "fetch" | "loop_exit" | "aggregated" | "done"
    fatal,          \* main: a WebDriverException ended the fetch loop
    outcome,        \* main: "running" | "nothing" | "reported" | "crash"
    agg             \* main: the calls made to calculate_summary_stats

vars == <<cards, category, user_brand_name, products, built, raised, epc, df, stats, spc,
          pair, all_products, pc, fatal, outcome, agg>>

(***************************************************************************)
(* Bounds of the model.                                                    *)
(***************************************************************************)
MaxCards == 2
MaxRows == 3
MaxBrands == 2
MaxTitles == 2

(***************************************************************************)
(* Numbers.                                                                *)
(***************************************************************************)
None == <<>>

RECURSIVE Gcd(_, _)
Gcd(a, b) == IF b = 0 THEN a ELSE Gcd(b, a % b)

Rat(n, d) == LET g == Gcd(n, d) IN <<n \div g, d \div g>>
Whole(n) == <<n, 1>>
RatAdd(p, q) == Rat(p[1] * q[2] + q[1] * p[2], p[2] * q[2])
RatDiv(p, k) == Rat(p[1], p[2] * k)
RatLess(p, q) == p[1] * q[2] < q[1] * p[2]

RECURSIVE SeqSum(_)
SeqSum(s) == IF s = <<>> THEN Whole(0) ELSE RatAdd(s[1], SeqSum(Tail(s)))

SeqMax(s) == CHOOSE x \in {s[k] : k \in 1..Len(s)} :
                 \A y \in {s[k] : k \in 1..Len(s)} : ~RatLess(x, y)
SeqMin(s) == CHOOSE x \in {s[k] : k \in 1..Len(s)} :
                 \A y \in {s[k] : k \in 1..Len(s)} : ~RatLess(y, x)
SeqMean(s) == RatDiv(SeqSum(s), Len(s))

(***************************************************************************)
(* extract_price / extract_discount_rate.                                  *)
(***************************************************************************)
Digits == <<"0", "1", "2", "3", "4", "5", "6", "7", "8", "9">>
IsDigit(c) == \E k \in 1..Len(Digits) : Digits[k] = c
DigitValue(c) == (CHOOSE k \in 1..Len(Digits) : Digits[k] = c) - 1

\* re.sub(r'[^\d.]', '', text)
KeepDigitOrDot(c) == IsDigit(c) \/ c = "."
StripNonNumeric(text) == SelectSeq(text, KeepDigitOrDot)

RECURSIVE DigitsValue(_)
DigitsValue(s) ==
    IF s = <<>> THEN 0
    ELSE DigitsValue(SubSeq(s, 1, Len(s) - 1)) * 10 + DigitValue(s[Len(s)])

RECURSIVE Pow10(_)
Pow10(k) == IF k = 0 THEN 1 ELSE 10 * Pow10(k - 1)

\* float(s) for s made of digits and points: None stands for ValueError
ParseFloat(s) ==
    LET dots   == {k \in 1..Len(s) : s[k] = "."}
        ndigit == Len(s) - Cardinality(dots)
    IN  IF Cardinality(dots) > 1 \/ ndigit = 0 THEN None
        ELSE LET p    == IF dots = {} THEN Len(s) + 1 ELSE CHOOSE k \in dots : TRUE
                 ip   == SubSeq(s, 1, p - 1)
                 fp   == SubSeq(s, p + 1, Len(s))
             IN  Rat(DigitsValue(ip) * Pow10(Len(fp)) + DigitsValue(fp), Pow10(Len(fp)))

extract_price(price_text) == ParseFloat(StripNonNumeric(price_text))
extract_discount_rate(rate_text) == ParseFloat(StripNonNumeric(rate_text))

(***************************************************************************)
(* Rendered cards.  A card is the element matched by the product XPath: it *)
(* holds the spans matched by the product-name XPath (name) and, in        *)
(* document order, the spans of class sc-fWnslK (spans), each with its     *)
(* text and whether it also carries the class text-red.                    *)
(***************************************************************************)
Won == "won"    \* the one character U+C6D0, the currency marker of line 92

T90 == <<"9", "0", Won>>
T100 == <<"1", "0", "0", Won>>
TPct == <<"1", "0", "%">>
TBare == <<"%">>

Span(t, r) == [text |-> t, red |-> r]
SpanPool == {Span(T90, FALSE), Span(T100, FALSE), Span(TPct, TRUE),
             Span(T90, TRUE), Span(TBare, TRUE)}
SpanLists ==
    {<<>>} \cup {<<s>> : s \in SpanPool} \cup {<<s, t>> : s, t \in SpanPool}
    \cup {<<Span(T90, FALSE), Span(TPct, TRUE), Span(T100, FALSE)>>,
          <<Span(T100, FALSE), Span(TPct, TRUE), Span(T100, FALSE)>>}
\* named cards of every shape, and unnamed cards of the shapes of at most one span
CardPool ==
    [name : {<<"Shirt">>}, spans : SpanLists]
    \cup [name : {<<>>}, spans : {<<>>} \cup {<<s>> : s \in SpanPool}]

\* what driver.find_elements does: a list of elements, or an exception
Found(elems) == [ok |-> TRUE, elems |-> elems]
LookupRaises == [ok |-> FALSE, elems |-> <<>>]
Collections ==
    {LookupRaises}
    \cup {Found(e) : e \in UNION {[1..n -> CardPool] : n \in 0..MaxCards}}

(***************************************************************************)
(* get_product_info.                                                       *)
(***************************************************************************)
IsRed(sp) == sp.red
NotRed(sp) == ~sp.red

Product(cat, brand, name, ori, rate, sale) ==
    [Category |-> cat, BrandName |-> brand, ProductName |-> name,
     OriginalPrice |-> ori, DiscountRate |-> rate, ActualSalePrice |-> sale]

\* the sentinel, were it named like a card without a display name
SentinelUnnamed(cat, brand) == Product(cat, brand, "N/A", None, None, None)

\* lines 48-55
Sentinel(cat, brand) == Product(cat, brand, "X", None, None, None)

\* the local variable sale_price_text: unassigned until line 68 succeeds
Unassigned == [bound |-> FALSE, text |-> <<>>]
Assigned(t) == [bound |-> TRUE, text |-> t]

\* lines 61-64
ProductNameOf(element) ==
    IF element.name = <<>> THEN "N/A" ELSE element.name[1]

\* lines 67-71: the binding of sale_price_text after the try
SaleTextAfter(element, before) ==
    LET plain == SelectSeq(element.spans, NotRed)
    IN  IF plain = <<>> THEN before ELSE Assigned(plain[1].text)

\* lines 67-71
ActualSalePriceOf(element) ==
    LET plain == SelectSeq(element.spans, NotRed)
    IN  IF plain = <<>> THEN None ELSE extract_price(plain[1].text)

\* lines 78-82
DiscountRateOf(element) ==
    LET red == SelectSeq(element.spans, IsRed)
    IN  IF red = <<>> THEN None ELSE extract_discount_rate(red[1].text)

\* lines 89-94: [raised, value]; reading an unassigned sale_price_text raises
RECURSIVE ScanPrices(_, _)
ScanPrices(price_elements, sale_price_text) ==
    IF price_elements = <<>> THEN [raised |-> FALSE, value |-> None]
    ELSE LET price == price_elements[1].text
         IN  IF price = <<>> THEN ScanPrices(Tail(price_elements), sale_price_text)
             ELSE IF ~sale_price_text.bound THEN [raised |-> TRUE, value |-> None]
             ELSE IF price # sale_price_text.text /\ (\E k \in 1..Len(price) : price[k] = Won)
                  THEN [raised |-> FALSE, value |-> extract_price(price)]
             ELSE ScanPrices(Tail(price_elements), sale_price_text)

\* lines 85-98, were the price fields scanned whether or not a rate was found
OriginalPriceAlwaysScanned(element, discount_rate, actual_sale_price, sale_price_text) ==
    ScanPrices(element.spans, sale_price_text)

\* lines 85-98
OriginalPriceOf(element, discount_rate, actual_sale_price, sale_price_text) ==
    IF discount_rate # None
    THEN ScanPrices(element.spans, sale_price_text)
    ELSE [raised |-> FALSE, value |-> actual_sale_price]

\* lines 73-75, were a missing sale price never taken as seen
SeenUnlessNone(actual_sale_price, unique_prices) ==
    actual_sale_price # None /\ actual_sale_price \in unique_prices

\* lines 73-75
Seen(actual_sale_price, unique_prices) == actual_sale_price \in unique_prices

\* one iteration of the loop of line 59 on the loop state st
CardStep(element, st, cat, brand) ==
    LET product_name      == ProductNameOf(element)
        sale_price_text   == SaleTextAfter(element, st.sale_price_text)
        actual_sale_price == ActualSalePriceOf(element)
        discount_rate     == DiscountRateOf(element)
        original          == OriginalPriceOf(element, discount_rate,
                                             actual_sale_price, sale_price_text)
    IN  IF Seen(actual_sale_price, st.unique_prices)
        THEN [st EXCEPT !.sale_price_text = sale_price_text]
        ELSE IF original.raised
        THEN [st EXCEPT !.sale_price_text = sale_price_text,
                        !.unique_prices = @ \cup {actual_sale_price},
                        !.raised = TRUE]
        ELSE [st EXCEPT !.sale_price_text = sale_price_text,
                        !.unique_prices = @ \cup {actual_sale_price},
                        !.products = Append(@, Product(cat, brand, product_name,
                                     original.value, discount_rate, actual_sale_price)),
                        !.from = Append(@, st.at)]

\* lines 59-107: the loop, left by the exception of a card (lines 109-111)
RECURSIVE CardLoop(_, _, _, _)
CardLoop(elems, st, cat, brand) ==
    IF st.at > Len(elems) \/ st.raised THEN st
    ELSE CardLoop(elems, [CardStep(elems[st.at], st, cat, brand) EXCEPT !.at = st.at + 1],
                  cat, brand)

LoopStart == [products |-> <<>>, unique_prices |-> {}, sale_price_text |-> Unassigned,
              raised |-> FALSE, at |-> 1, from |-> <<>>]

\* lines 40-113: products is the returned list; from[k] is the index of the
\* card products[k] was built from; raised: the except branch of line 109 ran
get_product_info(found, cat, brand) ==
    IF ~found.ok THEN [LoopStart EXCEPT !.raised = TRUE]
    ELSE IF found.elems = <<>>
    THEN [LoopStart EXCEPT !.products = <<Sentinel(cat, brand)>>]
    ELSE CardLoop(found.elems, LoopStart, cat, brand)

(***************************************************************************)
(* Strings that serve as grouping keys, in Python's string order.          *)
(***************************************************************************)
TitlePool == <<"Bag", "Cap", "Hat">>
BrandPool == <<"Xa", "Yb", "Zc">>
KeyOrder == <<"ALL (Bag)", "ALL (Cap)", "ALL (Hat)", "Bag", "Cap", "Hat",
              "Xa", "Yb", "Zc">>
Rank(str) == CHOOSE k \in 1..Len(KeyOrder) : KeyOrder[k] = str
StrLess(a, b) == Rank(a) < Rank(b)
KeyLess(x, y) == StrLess(x[1], y[1]) \/ (x[1] = y[1] /\ StrLess(x[2], y[2]))

\* the keys of a groupby, which sorts them (sort=True is the default)
RECURSIVE SortKeys(_)
SortKeys(keys) ==
    IF keys = {} THEN <<>>
    ELSE LET m == CHOOSE x \in keys : \A y \in keys : ~KeyLess(y, x)
         IN  <<m>> \o SortKeys(keys \ {m})

\* a groupby that does not sort: keys in order of first appearance
RECURSIVE KeysByAppearance(_, _)
KeysByAppearance(rows, seen) ==
    IF rows = <<>> THEN <<>>
    ELSE LET k == <<rows[1].Category, rows[1].BrandName>>
         IN  IF k \in seen THEN KeysByAppearance(Tail(rows), seen)
             ELSE <<k>> \o KeysByAppearance(Tail(rows), seen \cup {k})

(***************************************************************************)
(* calculate_summary_stats.                                                *)
(***************************************************************************)
\* Series.dropna() of one column of a group
RECURSIVE DropNa(_)
DropNa(col) ==
    IF col = <<>> THEN <<>>
    ELSE IF col[1] = None THEN DropNa(Tail(col))
    ELSE <<col[1]>> \o DropNa(Tail(col))

Column(rows, field) == [k \in 1..Len(rows) |-> rows[k][field]]

\* f"{x:.2f}": the number of hundredths printed (ties to even), as <<h>>;
\* "nan" is printed for NaN, modelled by NanText
NanText == <<>>
TwoDecimals(q) ==
    IF q = None THEN NanText
    ELSE LET n == q[1] * 100
             f == n \div q[2]
             r == n % q[2]
         IN  IF 2 * r > q[2] \/ (2 * r = q[2] /\ f % 2 = 1) THEN <<f + 1>> ELSE <<f>>

\* f"ALL ({category})"
AllLabel(cat) == "ALL (" \o cat \o ")"

OriginalMetric(present) == [label |-> "Original Price", value |-> <<Len(present)>>]
ActualMetric(rate) == [label |-> "Actual Sale Price", value |-> TwoDecimals(rate)]

StatsRow(cat, brand, metric, present) ==
    [Category |-> cat, BrandName |-> brand, Metric |-> metric,
     Max |-> SeqMax(present), Min |-> SeqMin(present),
     AvgMaxMin |-> RatDiv(RatAdd(SeqMax(present), SeqMin(present)), 2),
     Avg |-> SeqMean(present)]

IsBrandGroup(row, key) == row.Category = key[1] /\ row.BrandName = key[2]
BrandGroup(rows, key) ==
    LET In(row) == IsBrandGroup(row, key) IN SelectSeq(rows, In)
CategoryGroup(rows, cat) ==
    LET In(row) == row.Category = cat IN SelectSeq(rows, In)

\* line 144: the mean of the non-NaN discount rates, 0 when there is none
BrandDiscountRate(group) ==
    LET discount_stats == DropNa(Column(group, "DiscountRate"))
    IN  IF discount_stats # <<>> THEN SeqMean(discount_stats) ELSE Whole(0)

\* line 173: Series.mean() skips NaN and is NaN when nothing is left; the
\* column of a group is never empty, so the 0 of the else branch is never used
CategoryDiscountRate(group) ==
    LET col == Column(group, "DiscountRate")
    IN  IF col # <<>>
        THEN (IF DropNa(col) # <<>> THEN SeqMean(DropNa(col)) ELSE None)
        ELSE Whole(0)

\* lines 120-154: the rows one (category, brand) group appends to summary
BrandRows(rows, key) ==
    LET group              == BrandGroup(rows, key)
        price_ori_stats    == DropNa(Column(group, "OriginalPrice"))
        actual_price_stats == DropNa(Column(group, "ActualSalePrice"))
    IN  (IF price_ori_stats # <<>>
         THEN <<StatsRow(key[1], key[2], OriginalMetric(price_ori_stats), price_ori_stats)>>
         ELSE <<>>)
        \o
        (IF actual_price_stats # <<>>
         THEN <<StatsRow(key[1], key[2], ActualMetric(BrandDiscountRate(group)),
                         actual_price_stats)>>
         ELSE <<>>)

\* lines 119-154
RECURSIVE BrandLoop(_, _)
BrandLoop(rows, keys) ==
    IF keys = <<>> THEN <<>>
    ELSE BrandRows(rows, keys[1]) \o BrandLoop(rows, Tail(keys))

\* lines 157-182 for one category: brand_name is the local variable as the
\* iteration finds it; it is assigned only under line 160
CategoryRows(rows, cat, brand_name) ==
    LET group         == CategoryGroup(rows, cat)
        ori_prices    == DropNa(Column(group, "OriginalPrice"))
        actual_prices == DropNa(Column(group, "ActualSalePrice"))
        name          == IF ori_prices # <<>> THEN AllLabel(cat) ELSE brand_name
    IN  [brand_name |-> name,
         rows |->
            (IF ori_prices # <<>>
             THEN <<StatsRow(cat, name, OriginalMetric(ori_prices), ori_prices)>>
             ELSE <<>>)
            \o
            (IF actual_prices # <<>>
             THEN <<StatsRow(cat, name, ActualMetric(CategoryDiscountRate(group)),
                             actual_prices)>>
             ELSE <<>>)]

\* lines 156-182
RECURSIVE CategoryLoop(_, _, _)
CategoryLoop(rows, cats, brand_name) ==
    IF cats = <<>> THEN <<>>
    ELSE LET it == CategoryRows(rows, cats[1], brand_name)
         IN  it.rows \o CategoryLoop(rows, Tail(cats), it.brand_name)

\* line 185: sort_values(by='Category'), a stable insertion sort at this size
RECURSIVE InsertByCategory(_, _)
InsertByCategory(row, sorted) ==
    IF sorted = <<>> THEN <<row>>
    ELSE IF StrLess(row.Category, sorted[1].Category) THEN <<row>> \o sorted
    ELSE <<sorted[1]>> \o InsertByCategory(row, Tail(sorted))

RECURSIVE SortByCategory(_)
SortByCategory(rows) ==
    IF rows = <<>> THEN <<>>
    ELSE InsertByCategory(rows[Len(rows)], SortByCategory(SubSeq(rows, 1, Len(rows) - 1)))

\* line 119, were the groupby called with sort=False
GroupKeysUnsorted(rows) == KeysByAppearance(rows, {})

\* the keys of df.groupby(['Category', 'Brand Name']), line 119
GroupKeys(rows) ==
    SortKeys({<<rows[k].Category, rows[k].BrandName>> : k \in 1..Len(rows)})

\* the keys of df.groupby('Category'), line 156
CategoryKeys(rows) ==
    LET ks == SortKeys({<<rows[k].Category, rows[k].Category>> : k \in 1..Len(rows)})
    IN  [k \in 1..Len(ks) |-> ks[k][1]]

\* lines 115-187 on a table of at least one row; raised: the KeyError of
\* sort_values on the column-less frame built from an empty category_stats
calculate_summary_stats(rows) ==
    LET keys           == GroupKeys(rows)
        summary        == BrandLoop(rows, keys)
        last_brand     == keys[Len(keys)][2]
        category_stats == CategoryLoop(rows, CategoryKeys(rows), last_brand)
    IN  IF category_stats = <<>>
        THEN [raised |-> TRUE, summary |-> <<>>, category_summary |-> <<>>]
        ELSE [raised |-> FALSE, summary |-> summary,
              category_summary |-> SortByCategory(category_stats)]

(***************************************************************************)
(* main.                                                                   *)
(***************************************************************************)
brand_names == SubSeq(BrandPool, 1, MaxBrands)
titles == SubSeq(TitlePool, 1, MaxTitles)
NumPairs == Len(brand_names) * Len(titles)

\* the nested loops of lines 274-276: the k-th pair fetched, k in 1..NumPairs
BrandAt(k) == brand_names[((k - 1) \div Len(titles)) + 1]
TitleAt(k) == titles[((k - 1) % Len(titles)) + 1]

\* line 294: sort_values(by=['Category', 'Brand Name']), stable
RowKey(row) == <<row.Category, row.BrandName>>
RECURSIVE InsertByKey(_, _)
InsertByKey(row, sorted) ==
    IF sorted = <<>> THEN <<row>>
    ELSE IF KeyLess(RowKey(row), RowKey(sorted[1])) THEN <<row>> \o sorted
    ELSE <<sorted[1]>> \o InsertByKey(row, Tail(sorted))

RECURSIVE SortByKey(_)
SortByKey(rows) ==
    IF rows = <<>> THEN <<>>
    ELSE InsertByKey(rows[Len(rows)], SortByKey(SubSeq(rows, 1, Len(rows) - 1)))

\* lines 196-200: float of the digits and points of str(x), then astype(int)
Truncate(q) == q[1] \div q[2]
FormatRow(row) ==
    [row EXCEPT !.Max = Truncate(@), !.Min = Truncate(@),
                !.AvgMaxMin = Truncate(@), !.Avg = Truncate(@)]
format_columns_as_numbers(rows) == [k \in 1..Len(rows) |-> FormatRow(rows[k])]

\* line 289
NothingCollected(all) == all = <<>>

NoStats == [raised |-> FALSE, summary |-> <<>>, category_summary |-> <<>>]

\* the card collections a page of the run shows
PlainCard == [name |-> <<"Shirt">>, spans |-> <<Span(T100, FALSE)>>]
DiscountCard == [name |-> <<"Shirt">>,
                 spans |-> <<Span(T90, FALSE), Span(TPct, TRUE), Span(T100, FALSE)>>]
RunCollections == {LookupRaises, Found(<<>>), Found(<<PlainCard, DiscountCard>>)}

\* tables handed to calculate_summary_stats
PricePool == {<<None, None, None>>,
              <<Whole(100), Whole(10), Whole(90)>>,
              <<None, Whole(10), Whole(90)>>,
              <<Whole(90), None, Whole(90)>>}
GroupPool == {<<"Bag", "Xa">>, <<"Bag", "Yb">>, <<"Cap", "Xa">>}
RecordPool == {Product(g[1], g[2], "Shirt", p[1], p[2], p[3]) : g \in GroupPool, p \in PricePool}
Tables == UNION {[1..n -> RecordPool] : n \in 1..MaxRows}

SwapRows(rows, k) ==
    [j \in 1..Len(rows) |-> IF j = k THEN rows[k + 1] ELSE IF j = k + 1 THEN rows[k] ELSE rows[j]]

(***************************************************************************)
(* State machines.                                                         *)
(***************************************************************************)
ExtractIdle ==
    /\ cards = Found(<<>>) /\ category = TitlePool[1] /\ user_brand_name = BrandPool[1]
    /\ products = <<>> /\ built = <<>> /\ raised = FALSE /\ epc = "input"
SummarizeIdle == df = <<>> /\ stats = NoStats /\ spc = "input"
MainIdle ==
    /\ pair = 0 /\ all_products = <<>> /\ pc = "fetch" /\ fatal = FALSE
    /\ outcome = "running" /\ agg = <<>>

extractVars == <<cards, category, user_brand_name, products, built, raised, epc>>
summarizeVars == <<df, stats, spc>>
mainVars == <<pair, all_products, pc, fatal, outcome, agg>>

\* one call of get_product_info
Extract ==
    /\ epc = "input"
    /\ LET r == get_product_info(cards, category, user_brand_name)
       IN  products' = r.products /\ built' = r.from /\ raised' = r.raised
    /\ epc' = "returned"
    /\ UNCHANGED <<cards, category, user_brand_name, summarizeVars, mainVars>>

InitExtract ==
    /\ cards \in Collections
    /\ category = TitlePool[1] /\ user_brand_name = BrandPool[1]
    /\ products = <<>> /\ built = <<>> /\ raised = FALSE /\ epc = "input"
    /\ SummarizeIdle /\ MainIdle

NextExtract == Extract
SpecExtract == InitExtract /\ [][NextExtract]_vars

\* one call of calculate_summary_stats
Summarize ==
    /\ spc = "input"
    /\ stats' = calculate_summary_stats(df)
    /\ spc' = "summarized"
    /\ UNCHANGED <<df, extractVars, mainVars>>

\* the same call on the table with two neighbouring rows exchanged
SummarizePermuted ==
    /\ spc \in {"summarized", "permuted"}
    /\ \E k \in 1..(Len(df) - 1) :
          /\ df' = SwapRows(df, k)
          /\ stats' = calculate_summary_stats(SwapRows(df, k))
    /\ spc' = "permuted"
    /\ UNCHANGED <<extractVars, mainVars>>

InitSummarize ==
    /\ df \in Tables /\ stats = NoStats /\ spc = "input"
    /\ ExtractIdle /\ MainIdle

NextSummarize == Summarize \/ SummarizePermuted
SpecSummarize == InitSummarize /\ [][NextSummarize]_vars

\* lines 274-283: one iteration of the fetch loop, driver.get succeeding
Fetch ==
    /\ pc = "fetch"
    /\ \E found \in RunCollections :
          LET r == get_product_info(found, TitleAt(pair + 1), BrandAt(pair + 1))
          IN  /\ cards' = found
              /\ category' = TitleAt(pair + 1)
              /\ user_brand_name' = BrandAt(pair + 1)
              /\ products' = r.products /\ built' = r.from /\ raised' = r.raised
              /\ all_products' = all_products \o r.products
    /\ pair' = pair + 1
    /\ pc' = IF pair + 1 = NumPairs THEN "loop_exit" ELSE "fetch"
    /\ UNCHANGED <<epc, summarizeVars, fatal, outcome, agg>>

\* lines 279-287: driver.get or scroll_down raises WebDriverException
DriverFatal ==
    /\ pc = "fetch"
    /\ fatal' = TRUE
    /\ pc' = "loop_exit"
    /\ UNCHANGED <<extractVars, summarizeVars, pair, all_products, outcome, agg>>

\* lines 289-298
Aggregate ==
    /\ pc = "loop_exit"
    /\ IF NothingCollected(all_products)
       THEN /\ outcome' = "nothing" /\ pc' = "done"
            /\ UNCHANGED <<df, stats, agg>>
       ELSE LET sorted == SortByKey(all_products)
                r      == calculate_summary_stats(sorted)
            IN  /\ df' = sorted
                /\ agg' = Append(agg, sorted)
                /\ IF r.raised
                   THEN /\ stats' = r
                        /\ outcome' = "crash" /\ pc' = "done"
                   ELSE /\ stats' = [r EXCEPT
                               !.summary = format_columns_as_numbers(@),
                               !.category_summary = format_columns_as_numbers(@)]
                        /\ outcome' = "running" /\ pc' = "aggregated"
    /\ UNCHANGED <<extractVars, spc, pair, all_products, fatal>>

\* lines 300-345: the workbook and the document are written
Report ==
    /\ pc = "aggregated"
    /\ outcome' = "reported"
    /\ pc' = "done"
    /\ UNCHANGED <<extractVars, summarizeVars, pair, all_products, fatal, agg>>

Init == ExtractIdle /\ SummarizeIdle /\ MainIdle
Next == Fetch \/ DriverFatal \/ Aggregate \/ Report
Spec == Init /\ [][Next]_vars

(***************************************************************************)
(* Properties.                                                             *)
(***************************************************************************)
Returned == epc = "returned" /\ cards.ok
Elems == cards.elems
RowSet(rows) == {rows[k] : k \in 1..Len(rows)}
Summarized == spc \in {"summarized", "permuted"}

\* C1: the records one call of get_product_info returns have pairwise different
\* ActualSalePrice (None counting as one value); each is built from the first
\* card, in input order, whose sale price is that value; and the records keep
\* the order of the cards.
C1_UniqueSalePriceFirstWins ==
    (Returned /\ Elems # <<>>) =>
        /\ \A i, j \in 1..Len(products) :
              i # j => products[i].ActualSalePrice # products[j].ActualSalePrice
        /\ Len(built) = Len(products)
        /\ \A k \in 1..Len(products) :
              /\ built[k] \in 1..Len(Elems)
              /\ ActualSalePriceOf(Elems[built[k]]) = products[k].ActualSalePrice
              /\ \A j \in 1..(built[k] - 1) :
                    ActualSalePriceOf(Elems[j]) # products[k].ActualSalePrice
              /\ products[k].ProductName = ProductNameOf(Elems[built[k]])
              /\ products[k].DiscountRate = DiscountRateOf(Elems[built[k]])
        /\ \A k \in 1..(Len(products) - 1) : built[k] < built[k + 1]

\* two cards with the same sale price and different names: one record, the first's
C1_Witness ==
    /\ Returned /\ Len(Elems) = 2 /\ ~raised
    /\ ActualSalePriceOf(Elems[1]) = ActualSalePriceOf(Elems[2])
    /\ Elems[1].name # Elems[2].name
    /\ Len(products) = 1
    /\ products[1].ProductName = ProductNameOf(Elems[1])

\* C2: an empty card collection yields exactly the sentinel record (the call's
\* category and brand, ProductName "X", the three prices None); a non-empty
\* one yields no record named "X" (no card of the model is named "X").
C2_SentinelOnlyWhenEmpty ==
    Returned =>
        /\ Elems = <<>> =>
              /\ Len(products) = 1
              /\ products[1].Category = category
              /\ products[1].BrandName = user_brand_name
              /\ products[1].ProductName = "X"
              /\ products[1].OriginalPrice = None
              /\ products[1].DiscountRate = None
              /\ products[1].ActualSalePrice = None
        /\ Elems # <<>> => \A k \in 1..Len(products) : products[k].ProductName # "X"

C2_Witness == Returned /\ Elems = <<>> /\ Len(products) = 1

\* C3: in every returned record, DiscountRate = None implies
\* OriginalPrice = ActualSalePrice (equal numbers, or both None).
C3_NoDiscountSamePrice ==
    epc = "returned" =>
        \A k \in 1..Len(products) :
            products[k].DiscountRate = None =>
                products[k].OriginalPrice = products[k].ActualSalePrice

\* a card with an unparsable red span and a sale price: no rate, both prices equal
C3_Witness ==
    /\ Returned /\ Len(Elems) = 1 /\ Len(products) = 1
    /\ SelectSeq(Elems[1].spans, IsRed) # <<>>
    /\ products[1].DiscountRate = None
    /\ products[1].ActualSalePrice # None
    /\ products[1].OriginalPrice = products[1].ActualSalePrice

\* the card's own sale-price text, as a list of at most one text
OwnSaleText(element) ==
    LET plain == SelectSeq(element.spans, NotRed)
    IN  IF plain = <<>> THEN <<>> ELSE <<plain[1].text>>

\* the price texts of a card that differ from its sale-price text and contain
\* the currency marker
OriginalCandidates(element) ==
    LET Fits(sp) == /\ \A t \in RowSet(OwnSaleText(element)) : sp.text # t
                    /\ \E k \in 1..Len(sp.text) : sp.text[k] = Won
    IN  SelectSeq(element.spans, Fits)

\* C4: for a record with a DiscountRate, OriginalPrice is the parsed value of
\* the first price text of its card that differs from the sale-price text and
\* contains the currency marker; with no such text, OriginalPrice equals
\* ActualSalePrice.
C4_OriginalPriceOfDiscounted ==
    (Returned /\ Elems # <<>>) =>
        \A k \in 1..Len(products) :
            products[k].DiscountRate # None =>
                LET cand == OriginalCandidates(Elems[built[k]])
                IN  IF cand # <<>>
                    THEN products[k].OriginalPrice = extract_price(cand[1].text)
                    ELSE products[k].OriginalPrice = products[k].ActualSalePrice

\* C5: a card with a missing field never ends the batch (every card whose sale
\* price was not seen before has its record), and the record of a card is the
\* one the card yields on its own, whatever cards came before it.
C5_MissingFieldStaysLocal ==
    (Returned /\ Elems # <<>>) =>
        /\ Len(products) = Cardinality({ActualSalePriceOf(Elems[k]) : k \in 1..Len(Elems)})
        /\ \A k \in 1..Len(products) :
              get_product_info(Found(<<Elems[built[k]]>>), category, user_brand_name).products
                  = <<products[k]>>

\* the label the claim expects on the actual-sale-price row of a group
ExpectedRateLabel(group) ==
    LET present == DropNa(Column(group, "DiscountRate"))
    IN  TwoDecimals(IF present # <<>> THEN SeqMean(present) ELSE Whole(0))

\* C6: in summary and in category_summary, the actual-sale-price row of a group
\* is labelled with the mean of the group's present discount rates, and with 0
\* when the group has none.
C6_DiscountRateLabel ==
    (Summarized /\ ~stats.raised) =>
        /\ \A row \in RowSet(stats.summary) :
              row.Metric.label = "Actual Sale Price" =>
                  row.Metric.value =
                      ExpectedRateLabel(BrandGroup(df, <<row.Category, row.BrandName>>))
        /\ \A row \in RowSet(stats.category_summary) :
              row.Metric.label = "Actual Sale Price" =>
                  row.Metric.value = ExpectedRateLabel(CategoryGroup(df, row.Category))

\* C7: every row of category_summary has BrandName "ALL (<its own category>)".
C7_CategoryRowsNamedAll ==
    Summarized =>
        \A row \in RowSet(stats.category_summary) : row.BrandName = AllLabel(row.Category)

IsPermutation(a, b) ==
    /\ Len(a) = Len(b)
    /\ \A x \in RowSet(a) \cup RowSet(b) :
          Cardinality({k \in 1..Len(a) : a[k] = x}) = Cardinality({k \in 1..Len(b) : b[k] = x})

\* C8: after a fatal error of the page renderer the run ends reported exactly
\* when at least one record had been collected, and with "nothing to report"
\* and no call of the aggregator when none had; the aggregator is handed every
\* collected record.
C8_FatalErrorOutcome ==
    (pc = "done" /\ fatal) =>
        /\ pair < NumPairs
        /\ (outcome = "reported") <=> (all_products # <<>>)
        /\ all_products = <<>> => (outcome = "nothing" /\ agg = <<>>)
        /\ all_products # <<>> => (Len(agg) = 1 /\ IsPermutation(agg[1], all_products))

\* C9: a run whose master table holds only sentinel records passes through
\* aggregation: both summaries are empty and the run does not crash.
C9_SentinelOnlyRunAggregates ==
    (/\ pc = "done"
     /\ all_products # <<>>
     /\ \A k \in 1..Len(all_products) :
           all_products[k] = Sentinel(all_products[k].Category, all_products[k].BrandName))
    => /\ outcome = "reported"
       /\ ~stats.raised
       /\ stats.summary = <<>> /\ stats.category_summary = <<>>

IsSortedByCategory(rows) ==
    \A k \in 1..(Len(rows) - 1) : ~StrLess(rows[k + 1].Category, rows[k].Category)

====
